---- MODULE Spec2Model ----
(***************************************************************************)
(* A model of ultrasonics/database.py: the sqlite persistence layer of     *)
(* ultrasonics (settings table "ultrasonics", tables "plugins" and         *)
(* "applets"), with the value codec the module uses: str() on write and    *)
(* ast.literal_eval() on read.                                             *)
(*                                                                         *)
(* Text is a sequence of lexical tokens (a word, a numeral or a            *)
(* punctuation mark); white space is not significant to literal_eval and   *)
(* is left out.  A Python string value is the sequence of its tokens.      *)
(***************************************************************************)
EXTENDS Integers, Sequences, FiniteSets, TLC

\* ------------------------------------------------------------------ values
PyStr(s) == [t |-> "str", v |-> s]
PyInt(n) == [t |-> "int", v |-> n]
PyBool(b) == [t |-> "bool", v |-> b]
PyNone == [t |-> "none", v |-> 0]
\* a decimal number: <<integer part, fraction digits without trailing zeros>>
PyFloat(n, frac) == [t |-> "float", v |-> <<n, frac>>]
PyList(s) == [t |-> "list", v |-> s]
\* a dict is the sequence of its <<key, value>> items, in insertion order
PyDict(s) == [t |-> "dict", v |-> s]
\* an identifier in parsed text (ast.Name): not a literal
PyName(w) == [t |-> "name", v |-> w]

\* what a call does: return a value, or leave with an exception
Ret(v) == [kind |-> "ret", val |-> v]
Raise(e) == [kind |-> "raise", val |-> e]

\* the largest integer the numeral table covers
MaxInt == 3

IntToText(n) ==
    CASE n = 0 -> "0" [] n = 1 -> "1" [] n = 2 -> "2" [] n = 3 -> "3" [] n = 4 -> "4"
      [] OTHER -> "9"

Numerals == {IntToText(n) : n \in 0..MaxInt}

TextToInt(w) == CHOOSE n \in 0..MaxInt : IntToText(n) = w

Digits == {"0", "1", "2", "3", "4", "5", "6", "7", "8", "9"}

Punctuation == {"[", "]", "{", "}", ",", ":", "'", "."}

\* a single-word text
W(w) == <<w>>

\* the digits of a fraction without its trailing zeros
RECURSIVE StripZeros(_)
StripZeros(ds) ==
    IF ds # <<>> /\ ds[Len(ds)] = "0" THEN StripZeros(SubSeq(ds, 1, Len(ds) - 1)) ELSE ds

\* the text of a decimal number: 2.0, 1.1
FloatText(f) == <<IntToText(f[1]), ".">> \o (IF f[2] = <<>> THEN <<"0">> ELSE f[2])

\* the length of the run of digits of the text from position i
RECURSIVE DigitRun(_, _)
DigitRun(txt, i) ==
    IF i <= Len(txt) /\ txt[i] \in Digits THEN 1 + DigitRun(txt, i + 1) ELSE 0

\* ------------------------------------------------------------------- codec
RECURSIVE JoinRepr(_, _)
RECURSIVE JoinItems(_, _)
RECURSIVE py_repr(_)

\* repr(v): strings are quoted, containers show the repr of their elements
py_repr(v) ==
    CASE v.t = "str" -> <<"'">> \o v.v \o <<"'">>
      [] v.t = "int" -> <<IntToText(v.v)>>
      [] v.t = "bool" -> IF v.v THEN <<"True">> ELSE <<"False">>
      [] v.t = "none" -> <<"None">>
      [] v.t = "float" -> FloatText(v.v)
      [] v.t = "list" -> <<"[">> \o JoinRepr(v.v, 1) \o <<"]">>
      [] v.t = "dict" -> <<"{">> \o JoinItems(v.v, 1) \o <<"}">>

JoinRepr(s, i) ==
    IF i > Len(s) THEN <<>>
    ELSE py_repr(s[i]) \o (IF i < Len(s) THEN <<",">> ELSE <<>>) \o JoinRepr(s, i + 1)

JoinItems(s, i) ==
    IF i > Len(s) THEN <<>>
    ELSE py_repr(s[i][1]) \o <<":">> \o py_repr(s[i][2])
         \o (IF i < Len(s) THEN <<",">> ELSE <<>>) \o JoinItems(s, i + 1)

\* str(v): a string is written as it is, without quotes; anything else as repr
py_str(v) == IF v.t = "str" THEN v.v ELSE py_repr(v)

Parsed(v, n) == [err |-> "", val |-> v, next |-> n]
Failed(e) == [err |-> e, val |-> PyNone, next |-> 0]

\* the position of the quote that closes a string opened before i, or 0
RECURSIVE ClosingQuote(_, _)
ClosingQuote(txt, i) ==
    IF i > Len(txt) THEN 0
    ELSE IF txt[i] = "'" THEN i ELSE ClosingQuote(txt, i + 1)

\* d[k] = v on a dict: an equal key keeps its place and takes the new value
DictSet(items, k, v) ==
    IF \E j \in 1..Len(items) : items[j][1] = k
    THEN [j \in 1..Len(items) |-> IF items[j][1] = k THEN <<k, v>> ELSE items[j]]
    ELSE Append(items, <<k, v>>)

RECURSIVE ParseExpr(_, _)
RECURSIVE ParseList(_, _, _)
RECURSIVE ParseDict(_, _, _)

\* one expression of the text from position i (the grammar of Python literals)
ParseExpr(txt, i) ==
    IF i > Len(txt) THEN Failed("SyntaxError")
    ELSE LET c == txt[i] IN
         CASE c = "'" ->
                  LET j == ClosingQuote(txt, i + 1) IN
                  IF j = 0 THEN Failed("SyntaxError")
                  ELSE Parsed(PyStr(SubSeq(txt, i + 1, j - 1)), j + 1)
           [] c = "[" -> ParseList(txt, i + 1, <<>>)
           [] c = "{" -> ParseDict(txt, i + 1, <<>>)
           [] c = "True" -> Parsed(PyBool(TRUE), i + 1)
           [] c = "False" -> Parsed(PyBool(FALSE), i + 1)
           [] c = "None" -> Parsed(PyNone, i + 1)
           [] c \in Numerals ->
                  IF i < Len(txt) /\ txt[i + 1] = "."
                  THEN LET n == DigitRun(txt, i + 2) IN
                       Parsed(PyFloat(TextToInt(c), StripZeros(SubSeq(txt, i + 2, i + 1 + n))),
                              i + 2 + n)
                  ELSE Parsed(PyInt(TextToInt(c)), i + 1)
           [] c \in Punctuation \ {"'", "[", "{"} -> Failed("SyntaxError")
           [] OTHER -> Parsed(PyName(c), i + 1)

ParseList(txt, i, acc) ==
    IF i > Len(txt) THEN Failed("SyntaxError")
    ELSE IF txt[i] = "]" THEN Parsed(PyList(acc), i + 1)
    ELSE LET e == ParseExpr(txt, i) IN
         IF e.err # "" THEN e
         ELSE IF e.next > Len(txt) THEN Failed("SyntaxError")
         ELSE IF txt[e.next] = "," THEN ParseList(txt, e.next + 1, Append(acc, e.val))
         ELSE IF txt[e.next] = "]" THEN Parsed(PyList(Append(acc, e.val)), e.next + 1)
         ELSE Failed("SyntaxError")

ParseDict(txt, i, acc) ==
    IF i > Len(txt) THEN Failed("SyntaxError")
    ELSE IF txt[i] = "}" THEN Parsed(PyDict(acc), i + 1)
    ELSE LET k == ParseExpr(txt, i) IN
         IF k.err # "" THEN k
         ELSE IF k.next > Len(txt) \/ txt[k.next] # ":" THEN Failed("SyntaxError")
         ELSE LET e == ParseExpr(txt, k.next + 1) IN
              IF e.err # "" THEN e
              ELSE IF e.next > Len(txt) THEN Failed("SyntaxError")
              ELSE IF txt[e.next] = ","
                   THEN ParseDict(txt, e.next + 1, DictSet(acc, k.val, e.val))
              ELSE IF txt[e.next] = "}"
                   THEN Parsed(PyDict(DictSet(acc, k.val, e.val)), e.next + 1)
              ELSE Failed("SyntaxError")

\* the parsed text holds something that is not a literal (a bare identifier)
RECURSIVE HasName(_)
HasName(v) ==
    CASE v.t = "name" -> TRUE
      [] v.t = "list" -> \E j \in 1..Len(v.v) : HasName(v.v[j])
      [] v.t = "dict" -> \E j \in 1..Len(v.v) : HasName(v.v[j][1]) \/ HasName(v.v[j][2])
      [] OTHER -> FALSE

\* the parsed text uses a list or a dict as a dict key
RECURSIVE HasUnhashableKey(_)
HasUnhashableKey(v) ==
    CASE v.t = "list" -> \E j \in 1..Len(v.v) : HasUnhashableKey(v.v[j])
      [] v.t = "dict" -> \E j \in 1..Len(v.v) :
                             \/ v.v[j][1].t \in {"list", "dict"}
                             \/ HasUnhashableKey(v.v[j][1])
                             \/ HasUnhashableKey(v.v[j][2])
      [] OTHER -> FALSE

\* ast.literal_eval(text): the value of a text that is one Python literal;
\* SyntaxError when the text does not parse, ValueError when it parses to
\* something that is not a literal
literal_eval(txt) ==
    LET e == ParseExpr(txt, 1) IN
    IF e.err # "" THEN Raise(e.err)
    ELSE IF e.next # Len(txt) + 1 THEN Raise("SyntaxError")
    ELSE IF HasName(e.val) THEN Raise("ValueError")
    ELSE IF HasUnhashableKey(e.val) THEN Raise("TypeError")
    ELSE Ret(e.val)

\* --------------------------------------------------------------- sqlite
\* sqlite3 binds a Python bool as the integer 1 or 0
Bind(pv) == IF pv.t = "bool" THEN PyInt(IF pv.v THEN 1 ELSE 0) ELSE pv

\* a column declared TEXT stores a number as its text
TextAffinity(x) ==
    CASE x.t = "int" -> PyStr(W(IntToText(x.v)))
      [] x.t = "float" -> PyStr(FloatText(x.v))
      [] OTHER -> x

\* the text is a well-formed decimal numeral: 2, 1.0, 1.10
IsNumericText(txt) ==
    /\ Len(txt) >= 1
    /\ txt[1] \in Numerals
    /\ Len(txt) >= 2 => (txt[2] = "." /\ DigitRun(txt, 3) = Len(txt) - 2)

\* a column declared FLOAT stores an integer, and a text that is a
\* well-formed numeral, as a real number; any other text stays text
RealAffinity(x) ==
    CASE x.t = "int" -> PyFloat(x.v, <<>>)
      [] x.t = "str" ->
             IF IsNumericText(x.v)
             THEN PyFloat(TextToInt(x.v[1]), StripZeros(SubSeq(x.v, 3, Len(x.v))))
             ELSE x
      [] OTHER -> x

\* ------------------------------------------------------------- constants
\* the settings schema of the frontend settings page
global_settings ==
    << [type |-> "string", value |-> W("Many plugins utilise third party apis")],
       [type |-> "string", value |-> W("You can host this yourself")],
       [type |-> "string", value |-> W("If you don't need any of these services")],
       [type |-> "link", value |-> W("https://github.com/XDGFX/ultrasonics-api")],
       [type |-> "text", label |-> W("ultrasonics-api URL"), name |-> W("api_url"),
        value |-> W("https://ultrasonics-api.herokuapp.com/api/")] >>

\* the descriptor types that are stored in the settings table
ConfigurableTypes == {"text", "radio", "select"}

\* ----------------------------------------------------------------- state
VARIABLES
    sqlite_master,  \* the names of the tables of the database file
    ultrasonics,    \* the rows of the settings table, in rowid order
    plugins,        \* the rows of the plugins table, in id order
    applets,        \* the rows of the applets table, in rowid order
    _ultrasonics,   \* app._ultrasonics, the process metadata dict (its items)
    call,           \* the last call: [op, args]
    ret,            \* what the last call did: Ret(value) or Raise(exception)
    unclosed,       \* the connections of returned calls that are still open
    callers         \* two callers at work at the same time: [pc, args] each

vars == <<sqlite_master, ultrasonics, plugins, applets, _ultrasonics, call, ret,
          unclosed, callers>>

Call(op, args) == [op |-> op, args |-> args]

\* the process metadata the application may start with
Metadata ==
    { << <<W("version"), PyStr(<<"1", ".", "0">>)>> >>,
      << <<W("new_install"), PyBool(FALSE)>>, <<W("version"), PyStr(<<"1", ".", "1">>)>> >>,
      << <<W("version"), PyStr(<<"1", ".", "0">>)>>,
         <<W("api_url"), PyStr(W("https://custom/"))>> >> }

\* the callers that may be at work at the same time: the web interface,
\* which writes plans, and the scheduler, which writes last runs
Callers == {"ui", "scheduler"}

NoCallers == [c \in Callers |-> [pc |-> "idle", args |-> <<>>]]

\* the most connections of returned calls the model lets stay open
MaxUnclosed == 1

\* the end of "with sqlite3.connect(db_file) as conn": the block's exit
\* commits or rolls back and does not close the connection.  Each of the n
\* connections the call opened is closed when the garbage collector
\* finalizes it, which may be at the return or later.
LeaveN(n) ==
    unclosed' \in {k \in unclosed..(unclosed + n) : k <= MaxUnclosed}

Leave == LeaveN(1)

Init ==
    /\ sqlite_master = {}
    /\ ultrasonics = <<>>
    /\ plugins = <<>>
    /\ applets = <<>>
    /\ _ultrasonics \in Metadata
    /\ call = Call("start", <<>>)
    /\ ret = Ret(PyNone)
    /\ unclosed = 0
    /\ callers = NoCallers

\* a stored key equals a bound parameter, compared as the TEXT column compares
KeyIs(row, param) == row.key = TextAffinity(Bind(param))

\* ------------------------------------------------------------- general
\* new_install_check answering None also for an install that is no longer new
new_install_check_falsy(master, rows) ==
    IF "ultrasonics" \notin master THEN Ret(PyNone)
    ELSE LET found == SelectSeq(rows, LAMBDA r : KeyIs(r, PyStr(W("new_install")))) IN
         IF found = <<>> THEN Raise("IndexError")
         ELSE IF found[1].value = PyStr(W("1")) THEN Ret(PyBool(TRUE)) ELSE Ret(PyNone)

\* new_install(update=False): None when the settings table does not exist,
\* else whether the stored new_install value is the text 1
new_install_check(master, rows) ==
    IF "ultrasonics" \notin master THEN Ret(PyNone)
    ELSE LET found == SelectSeq(rows, LAMBDA r : KeyIs(r, PyStr(W("new_install")))) IN
         IF found = <<>> THEN Raise("IndexError")
         ELSE Ret(PyBool(found[1].value = PyStr(W("1"))))

\* INSERT INTO ultrasonics (key, value) VALUES(?, ?), for each item in turn
InsertSettings(rows, items) ==
    rows \o [i \in 1..Len(items) |->
                [key |-> TextAffinity(Bind(PyStr(items[i][1]))),
                 value |-> TextAffinity(Bind(items[i][2]))]]

\* the (name, value) pairs of the configurable descriptors of the schema
DefaultSettings(schema) ==
    LET conf == SelectSeq(schema, LAMBDA item : item.type \in ConfigurableTypes) IN
    [i \in 1..Len(conf) |-> <<conf[i].name, PyStr(conf[i].value)>>]

\* the version check at the end of connect: rows[0][0] of the version query
VersionCheck(rows) ==
    LET found == SelectSeq(rows, LAMBDA r : KeyIs(r, PyStr(W("version")))) IN
    IF found = <<>> THEN Raise("IndexError") ELSE Ret(PyNone)

\* connect(): seeds the settings table when new_install() is None, creates
\* the other tables, commits, and checks the stored version.  An exception
\* of new_install() that is not a sqlite3.Error leaves connect at once.
connect ==
    LET check == new_install_check(sqlite_master, ultrasonics)
        fresh == check = Ret(PyNone)
        meta == IF fresh THEN DictSet(_ultrasonics, W("new_install"), PyBool(TRUE))
                ELSE _ultrasonics
        rows == IF fresh
                THEN InsertSettings(InsertSettings(ultrasonics, meta),
                                    DefaultSettings(global_settings))
                ELSE ultrasonics
    IN /\ call' = Call("connect", <<>>)
       /\ IF check.kind = "raise"
          THEN /\ ret' = check
               /\ UNCHANGED <<sqlite_master, ultrasonics, _ultrasonics>>
          ELSE /\ _ultrasonics' = meta
               /\ ultrasonics' = rows
               /\ sqlite_master' = sqlite_master \cup {"ultrasonics", "plugins", "applets"}
               /\ ret' = VersionCheck(rows)
       /\ LeaveN(2)
       /\ UNCHANGED <<plugins, applets, callers>>

\* new_install(): the check, which changes nothing
new_install ==
    /\ call' = Call("new_install", <<>>)
    /\ ret' = new_install_check(sqlite_master, ultrasonics)
    /\ Leave
    /\ UNCHANGED <<sqlite_master, ultrasonics, plugins, applets, _ultrasonics, callers>>

\* MarkNotNew with the statement's WHERE naming another key
MarkNotNewOtherKey(rows) ==
    [i \in 1..Len(rows) |->
        IF KeyIs(rows[i], PyStr(W("version")))
        THEN [rows[i] EXCEPT !.value = TextAffinity(PyInt(0))]
        ELSE rows[i]]

\* UPDATE ultrasonics SET value = 0 WHERE key = 'new_install'
MarkNotNew(rows) ==
    [i \in 1..Len(rows) |->
        IF KeyIs(rows[i], PyStr(W("new_install")))
        THEN [rows[i] EXCEPT !.value = TextAffinity(PyInt(0))]
        ELSE rows[i]]

\* new_install(update=True); without the table the statement fails with a
\* sqlite3.Error, which is logged
new_install_update ==
    /\ call' = Call("new_install_update", <<>>)
    /\ ultrasonics' = IF "ultrasonics" \in sqlite_master THEN MarkNotNew(ultrasonics)
                      ELSE ultrasonics
    /\ ret' = Ret(PyNone)
    /\ Leave
    /\ UNCHANGED <<sqlite_master, plugins, applets, _ultrasonics, callers>>

\* ------------------------------------------------------ global settings
\* the raw view: data[key] = value for each row in turn
RECURSIVE RawSettings(_, _, _)
RawSettings(rows, i, data) ==
    IF i > Len(rows) THEN data
    ELSE RawSettings(rows, i + 1, DictSet(data, rows[i].key, rows[i].value))

\* the names of the configurable descriptors
db_compatible_settings(data) ==
    {data[i].name : i \in {j \in 1..Len(data) : data[j].type \in ConfigurableTypes}}

\* ApplyRow without the test of the descriptor's name
ApplyRowAnyItem(data, row) ==
    IF row.key.v \in db_compatible_settings(data)
    THEN [i \in 1..Len(data) |-> [data[i] EXCEPT !.value = row.value.v]]
    ELSE data

\* one row applied to the copy of the schema: every descriptor that has this
\* name takes the stored value, when the name is a configurable one
ApplyRow(data, row) ==
    IF row.key.v \in db_compatible_settings(data)
    THEN [i \in 1..Len(data) |->
             IF "name" \in DOMAIN data[i] /\ data[i].name = row.key.v
             THEN [data[i] EXCEPT !.value = row.value.v]
             ELSE data[i]]
    ELSE data

RECURSIVE MergedSettings(_, _, _)
MergedSettings(rows, i, data) ==
    IF i > Len(rows) THEN data
    ELSE MergedSettings(rows, i + 1, ApplyRow(data, rows[i]))

\* global_settings_load(raw): None (after a logged sqlite3.Error) when the
\* settings table does not exist
settings_loaded(master, rows, raw) ==
    IF "ultrasonics" \notin master THEN Ret(PyNone)
    ELSE IF raw THEN Ret(PyDict(RawSettings(rows, 1, <<>>)))
    ELSE Ret(MergedSettings(rows, 1, global_settings))

global_settings_load ==
    \E raw \in BOOLEAN :
        /\ call' = Call("global_settings_load", <<raw>>)
        /\ ret' = settings_loaded(sqlite_master, ultrasonics, raw)
        /\ Leave
        /\ UNCHANGED <<sqlite_master, ultrasonics, plugins, applets, _ultrasonics, callers>>

\* UpdateSetting binding the tuple the other way round: key first
UpdateSettingKeyFirst(rows, entry) ==
    [i \in 1..Len(rows) |->
        IF KeyIs(rows[i], entry[1])
        THEN [rows[i] EXCEPT !.value = TextAffinity(Bind(entry[2]))]
        ELSE rows[i]]

\* UpdateSetting inserting a row when no row has the key
UpdateSettingUpsert(rows, entry) ==
    IF \E i \in 1..Len(rows) : KeyIs(rows[i], entry[2])
    THEN [i \in 1..Len(rows) |->
            IF KeyIs(rows[i], entry[2])
            THEN [rows[i] EXCEPT !.value = TextAffinity(Bind(entry[1]))]
            ELSE rows[i]]
    ELSE Append(rows, [key |-> TextAffinity(Bind(entry[2])),
                       value |-> TextAffinity(Bind(entry[1]))])

\* UPDATE ultrasonics SET value = ? WHERE key = ?, with one tuple of the
\* list: its first element is bound to value, its second to key
UpdateSetting(rows, entry) ==
    [i \in 1..Len(rows) |->
        IF KeyIs(rows[i], entry[2])
        THEN [rows[i] EXCEPT !.value = TextAffinity(Bind(entry[1]))]
        ELSE rows[i]]

\* executemany: the statement once for each tuple, in order
RECURSIVE SaveSettings(_, _, _)
SaveSettings(rows, settings, i) ==
    IF i > Len(settings) THEN rows
    ELSE SaveSettings(UpdateSetting(rows, settings[i]), settings, i + 1)

\* the longest list of tuples passed to global_settings_save
MaxEntries == 1

\* the strings the callers save
SettingStrings ==
    {PyStr(W("api_url")), PyStr(W("new_install")), PyStr(W("1")),
     PyStr(W("https://custom/"))}

SettingsLists ==
    UNION {[1..n -> SettingStrings \X SettingStrings] : n \in 0..MaxEntries}

global_settings_save ==
    \E settings \in SettingsLists :
        /\ call' = Call("global_settings_save", <<settings>>)
        /\ ultrasonics' = IF "ultrasonics" \in sqlite_master
                          THEN SaveSettings(ultrasonics, settings, 1)
                          ELSE ultrasonics
        /\ ret' = Ret(PyNone)
        /\ Leave
        /\ UNCHANGED <<sqlite_master, plugins, applets, _ultrasonics, callers>>

\* the garbage collector finalizes the connections no call holds any more
collect ==
    /\ unclosed > 0
    /\ unclosed' = 0
    /\ UNCHANGED <<sqlite_master, ultrasonics, plugins, applets, _ultrasonics, call, ret,
                   callers>>

\* the install state tracker and the global settings store
NextSettings ==
    \/ collect
    \/ connect
    \/ new_install
    \/ new_install_update
    \/ global_settings_load
    \/ global_settings_save

SpecSettings == Init /\ [][NextSettings]_vars

\* --------------------------------------------------------------- plugins
\* the most rows the plugins table is let grow to
MaxPlugins == 2

PluginNames == {PyStr(W("spotify")), PyStr(W("lastfm"))}

\* the versions the plugin host passes: "1.0", "2", "0.1.2"
Versions == {PyStr(<<"1", ".", "0">>), PyStr(<<"2">>), PyStr(<<"0", ".", "1", ".", "2">>)}

\* the settings the plugin host stores
PluginSettings ==
    {PyStr(W("abc")),
     PyList(<<PyStr(W("abc")), PyInt(1)>>),
     PyDict(<< <<PyStr(W("k")), PyList(<<PyBool(TRUE)>>)>> >>)}

\* WHERE plugin = ? AND version = ?: the name compared as text, the version
\* as the FLOAT column compares (a numeral as the number it denotes)
PluginMatches(row, name, version) ==
    /\ row.plugin = TextAffinity(Bind(name))
    /\ row.version = RealAffinity(Bind(version))

\* INSERT INTO plugins(plugin, version) VALUES(str(name), str(version))
plugin_create_entry ==
    \E name \in PluginNames, version \in Versions :
        /\ Len(plugins) < MaxPlugins
        /\ call' = Call("plugin_create_entry", <<name, version>>)
        /\ plugins' = IF "plugins" \in sqlite_master
                      THEN Append(plugins,
                                  [plugin |-> TextAffinity(PyStr(py_str(name))),
                                   version |-> RealAffinity(PyStr(py_str(version))),
                                   settings |-> PyNone])
                      ELSE plugins
        /\ ret' = Ret(PyNone)
        /\ Leave
        /\ UNCHANGED <<sqlite_master, ultrasonics, applets, _ultrasonics, callers>>

\* UPDATE plugins SET settings = str(settings) WHERE plugin = ? AND version = ?
UpdatePlugins(rows, name, version, settings) ==
    [i \in 1..Len(rows) |->
        IF PluginMatches(rows[i], name, version)
        THEN [rows[i] EXCEPT !.settings = PyStr(py_str(settings))]
        ELSE rows[i]]

plugin_update_entry ==
    \E name \in PluginNames, version \in Versions, settings \in PluginSettings :
        /\ call' = Call("plugin_update_entry", <<name, version, settings>>)
        /\ plugins' = IF "plugins" \in sqlite_master
                      THEN UpdatePlugins(plugins, name, version, settings)
                      ELSE plugins
        /\ ret' = Ret(PyNone)
        /\ Leave
        /\ UNCHANGED <<sqlite_master, ultrasonics, applets, _ultrasonics, callers>>

\* plugin_entry_exists(name): str() of the version of every row of that
\* name, or [False] when there is none; None after a logged sqlite3.Error
versions_found(master, rows, name) ==
    IF "plugins" \notin master THEN Ret(PyNone)
    ELSE LET found == SelectSeq(rows, LAMBDA r : r.plugin = TextAffinity(Bind(name))) IN
         IF Len(found) > 0
         THEN Ret(PyList([i \in 1..Len(found) |-> PyStr(py_str(found[i].version))]))
         ELSE Ret(PyList(<<PyBool(FALSE)>>))

plugin_entry_exists ==
    \E name \in PluginNames :
        /\ call' = Call("plugin_entry_exists", <<name>>)
        /\ ret' = versions_found(sqlite_master, plugins, name)
        /\ Leave
        /\ UNCHANGED <<sqlite_master, ultrasonics, plugins, applets, _ultrasonics, callers>>

\* plugin_load_entry(name, version): rows[0][0] of the matching rows, passed
\* through literal_eval unless it is None
plugin_loaded(master, rows, name, version) ==
    IF "plugins" \notin master THEN Ret(PyNone)
    ELSE LET found == SelectSeq(rows, LAMBDA r : PluginMatches(r, name, version)) IN
         IF found = <<>> THEN Raise("IndexError")
         ELSE IF found[1].settings # PyNone THEN literal_eval(found[1].settings.v)
         ELSE Ret(PyNone)

plugin_load_entry ==
    \E name \in PluginNames, version \in Versions :
        /\ call' = Call("plugin_load_entry", <<name, version>>)
        /\ ret' = plugin_loaded(sqlite_master, plugins, name, version)
        /\ Leave
        /\ UNCHANGED <<sqlite_master, ultrasonics, plugins, applets, _ultrasonics, callers>>

\* the plugin registry
NextPlugins ==
    \/ collect
    \/ connect
    \/ plugin_create_entry
    \/ plugin_update_entry
    \/ plugin_entry_exists
    \/ plugin_load_entry

SpecPlugins == Init /\ [][NextPlugins]_vars

\* --------------------------------------------------------------- applets
AppletIds == {PyStr(W("a1")), PyStr(W("a2"))}

\* the plans and last-run outcomes the callers store
Values ==
    {PyStr(W("abc")), PyStr(W("1")), PyInt(1), PyBool(TRUE),
     PyList(<<PyStr(W("abc")), PyInt(1)>>),
     PyDict(<< <<PyStr(W("k")), PyList(<<PyBool(TRUE)>>)>> >>)}

\* WHERE id = ?, compared as the TEXT column compares
IdIs(row, param) == row.id = TextAffinity(Bind(param))

\* REPLACE INTO applets(id, data): a row of the same id is deleted, and the
\* new row is inserted with the columns the statement names; lastrun, which
\* it does not name, is NULL
ReplaceApplet(rows, id, data) ==
    Append(SelectSeq(rows, LAMBDA r : r.id # id),
           [id |-> id, lastrun |-> PyNone, data |-> data])

applet_create_entry ==
    \E applet_id \in AppletIds, data \in Values :
        /\ call' = Call("applet_create_entry", <<applet_id, data>>)
        /\ applets' = IF "applets" \in sqlite_master
                      THEN ReplaceApplet(applets, TextAffinity(PyStr(py_str(applet_id))),
                                         TextAffinity(PyStr(py_str(data))))
                      ELSE applets
        /\ ret' = Ret(PyNone)
        /\ Leave
        /\ UNCHANGED <<sqlite_master, ultrasonics, plugins, _ultrasonics, callers>>

\* applet_load_entry(applet_id): None when no row has the id, else
\* literal_eval of the stored plan
applet_loaded(master, rows, applet_id) ==
    IF "applets" \notin master THEN Ret(PyNone)
    ELSE LET found == SelectSeq(rows, LAMBDA r : IdIs(r, applet_id)) IN
         IF found = <<>> THEN Ret(PyNone)
         ELSE IF found[1].data = PyNone THEN Raise("ValueError")
         ELSE literal_eval(found[1].data.v)

applet_load_entry ==
    \E applet_id \in AppletIds :
        /\ call' = Call("applet_load_entry", <<applet_id>>)
        /\ ret' = applet_loaded(sqlite_master, applets, applet_id)
        /\ Leave
        /\ UNCHANGED <<sqlite_master, ultrasonics, plugins, applets, _ultrasonics, callers>>

\* DeleteApplet with the comparison turned round: the other rows go
DeleteAppletOthers(rows, applet_id) == SelectSeq(rows, LAMBDA r : IdIs(r, applet_id))

\* DeleteApplet without its WHERE: every row goes
DeleteAppletAll(rows, applet_id) == <<>>

\* DELETE FROM applets WHERE id = ?
DeleteApplet(rows, applet_id) == SelectSeq(rows, LAMBDA r : ~IdIs(r, applet_id))

applet_delete_entry ==
    \E applet_id \in AppletIds :
        /\ call' = Call("applet_delete_entry", <<applet_id>>)
        /\ applets' = IF "applets" \in sqlite_master THEN DeleteApplet(applets, applet_id)
                      ELSE applets
        /\ ret' = Ret(PyNone)
        /\ Leave
        /\ UNCHANGED <<sqlite_master, ultrasonics, plugins, _ultrasonics, callers>>

\* UpdateLastrun inserting a row, without a plan, when no row has the id
UpdateLastrunUpsert(rows, applet_id, data) ==
    IF \E i \in 1..Len(rows) : IdIs(rows[i], PyStr(py_str(applet_id)))
    THEN [i \in 1..Len(rows) |->
            IF IdIs(rows[i], PyStr(py_str(applet_id)))
            THEN [rows[i] EXCEPT !.lastrun = TextAffinity(PyStr(py_str(data)))]
            ELSE rows[i]]
    ELSE Append(rows, [id |-> TextAffinity(PyStr(py_str(applet_id))),
                       lastrun |-> TextAffinity(PyStr(py_str(data))),
                       data |-> PyNone])

\* UPDATE applets SET lastrun = str(data) WHERE id = str(applet_id)
UpdateLastrun(rows, applet_id, data) ==
    [i \in 1..Len(rows) |->
        IF IdIs(rows[i], PyStr(py_str(applet_id)))
        THEN [rows[i] EXCEPT !.lastrun = TextAffinity(PyStr(py_str(data)))]
        ELSE rows[i]]

applet_update_lastrun ==
    \E applet_id \in AppletIds, data \in Values :
        /\ call' = Call("applet_update_lastrun", <<applet_id, data>>)
        /\ applets' = IF "applets" \in sqlite_master
                      THEN UpdateLastrun(applets, applet_id, data)
                      ELSE applets
        /\ ret' = Ret(PyNone)
        /\ Leave
        /\ UNCHANGED <<sqlite_master, ultrasonics, plugins, _ultrasonics, callers>>

\* the dict applet_gather builds for one row, or the exception of the first
\* literal_eval that fails
GatherRow(row) ==
    LET plans == IF row.data = PyNone THEN Raise("ValueError") ELSE literal_eval(row.data.v) IN
    IF plans.kind = "raise" THEN plans
    ELSE IF row.lastrun = PyNone
    THEN Ret(PyDict(<< <<PyStr(W("applet_id")), row.id>>,
                       <<PyStr(W("applet_plans")), plans.val>> >>))
    ELSE LET lastrun == literal_eval(row.lastrun.v) IN
         IF lastrun.kind = "raise" THEN lastrun
         ELSE Ret(PyDict(<< <<PyStr(W("applet_id")), row.id>>,
                            <<PyStr(W("applet_plans")), plans.val>>,
                            <<PyStr(W("applet_lastrun")), lastrun.val>> >>))

RECURSIVE GatherRows(_, _, _)
GatherRows(rows, i, data) ==
    IF i > Len(rows) THEN Ret(PyList(data))
    ELSE LET item == GatherRow(rows[i]) IN
         IF item.kind = "raise" THEN item
         ELSE GatherRows(rows, i + 1, Append(data, item.val))

\* applet_gather(): every row, in rowid order
applets_gathered(master, rows) ==
    IF "applets" \notin master THEN Ret(PyNone) ELSE GatherRows(rows, 1, <<>>)

applet_gather ==
    /\ call' = Call("applet_gather", <<>>)
    /\ ret' = applets_gathered(sqlite_master, applets)
    /\ Leave
    /\ UNCHANGED <<sqlite_master, ultrasonics, plugins, applets, _ultrasonics, callers>>

\* the applet store
NextApplets ==
    \/ collect
    \/ connect
    \/ applet_create_entry
    \/ applet_load_entry
    \/ applet_delete_entry
    \/ applet_update_lastrun
    \/ applet_gather

SpecApplets == Init /\ [][NextApplets]_vars

\* ------------------------------------------------- two callers at a time
\* the texts str() gives for the values the callers store
StoredTexts == {PyStr(py_str(v)) : v \in Values}

\* the settings rows connect leaves for a metadata mapping
SeededSettings(meta) ==
    InsertSettings(InsertSettings(<<>>, DictSet(meta, W("new_install"), PyBool(TRUE))),
                   DefaultSettings(global_settings))

\* an installed database with one applet, on which the web interface is
\* about to call applet_create_entry(id, plan) and the scheduler
\* applet_update_lastrun(id, outcome), for the same id
InitRace ==
    /\ sqlite_master = {"ultrasonics", "plugins", "applets"}
    /\ \E meta \in Metadata :
           /\ _ultrasonics = DictSet(meta, W("new_install"), PyBool(TRUE))
           /\ ultrasonics = SeededSettings(meta)
    /\ plugins = <<>>
    /\ \E id \in AppletIds, plan \in Values, outcome \in Values :
           /\ applets \in {<<[id |-> id, lastrun |-> l, data |-> d]>> :
                               l \in StoredTexts \cup {PyNone}, d \in StoredTexts}
           /\ callers = [c \in Callers |->
                            [pc |-> "start",
                             args |-> IF c = "ui" THEN <<id, plan>> ELSE <<id, outcome>>]]
    /\ call = Call("start", <<>>)
    /\ ret = Ret(PyNone)
    /\ unclosed = 0

\* sqlite3.connect(db_file) and conn.cursor()
caller_connect(c) ==
    /\ callers[c].pc = "start"
    /\ callers' = [callers EXCEPT ![c].pc = "connected"]
    /\ UNCHANGED <<sqlite_master, ultrasonics, plugins, applets, _ultrasonics, call, ret,
                   unclosed>>

\* cursor.execute(query, ...): the statement takes the database's write
\* lock, which it gets once no other connection has an uncommitted write
\* (sqlite3 waits for the lock), and runs as a whole
caller_execute(c) ==
    /\ callers[c].pc = "connected"
    /\ \A other \in Callers \ {c} : callers[other].pc # "executed"
    /\ callers' = [callers EXCEPT ![c].pc = "executed"]
    /\ applets' = IF c = "ui"
                  THEN ReplaceApplet(applets,
                                     TextAffinity(PyStr(py_str(callers[c].args[1]))),
                                     TextAffinity(PyStr(py_str(callers[c].args[2]))))
                  ELSE UpdateLastrun(applets, callers[c].args[1], callers[c].args[2])
    /\ UNCHANGED <<sqlite_master, ultrasonics, plugins, _ultrasonics, call, ret, unclosed>>

\* conn.commit(), the log line and the return
caller_commit(c) ==
    /\ callers[c].pc = "executed"
    /\ callers' = [callers EXCEPT ![c].pc = "done"]
    /\ call' = Call(IF c = "ui" THEN "applet_create_entry" ELSE "applet_update_lastrun",
                    callers[c].args)
    /\ ret' = Ret(PyNone)
    /\ Leave
    /\ UNCHANGED <<sqlite_master, ultrasonics, plugins, applets, _ultrasonics>>

NextRace ==
    \/ collect
    \/ \E c \in Callers : caller_connect(c)
    \/ \E c \in Callers : caller_execute(c)
    \/ \E c \in Callers : caller_commit(c)

SpecRace == InitRace /\ [][NextRace]_vars

\* every operation of the module.  The three stores touch disjoint tables,
\* so each is checked under its own specification above.
Next == NextSettings \/ NextPlugins \/ NextApplets

Spec == Init /\ [][Next]_vars

\* a settings table left by any earlier installation: the rows that
\* global_settings_load may find
MaxRows == 2

StoredKeys == {PyStr(W("version")), PyStr(W("new_install")), PyStr(W("api_url"))}

StoredValues == {PyStr(W("1")), PyStr(W("https://custom/"))}

InitStored ==
    /\ sqlite_master = {"ultrasonics", "plugins", "applets"}
    /\ ultrasonics \in UNION {[1..n -> [key : StoredKeys, value : StoredValues]] :
                                  n \in 0..MaxRows}
    /\ plugins = <<>>
    /\ applets = <<>>
    /\ _ultrasonics \in Metadata
    /\ call = Call("start", <<>>)
    /\ ret = Ret(PyNone)
    /\ unclosed = 0
    /\ callers = NoCallers

NextStored == collect \/ global_settings_load

SpecStored == InitStored /\ [][NextStored]_vars

\* ---------------------------------------------------------------- claims
HasSettingsTable == "ultrasonics" \in sqlite_master

IsNewInstall == new_install_check(sqlite_master, ultrasonics)

\* C3: new_install() answers None while the settings table does not exist,
\* True right after connect has seeded the table, and False right after
\* new_install(update=True) on a seeded table.
NewInstallTransition ==
    [][ /\ ~HasSettingsTable => IsNewInstall = Ret(PyNone)
        /\ (call'.op = "connect" /\ ~HasSettingsTable) => IsNewInstall' = Ret(PyBool(TRUE))
        /\ (call'.op = "new_install_update" /\ HasSettingsTable)
               => IsNewInstall' = Ret(PyBool(FALSE)) ]_vars

\* C3 happens: new_install() has returned False
NewInstallAnsweredFalse == call.op = "new_install" /\ ret = Ret(PyBool(FALSE))

\* C4: connect on a database that already has the settings table inserts,
\* changes and deletes no settings row (so a second connect in a row leaves
\* the rows of the first).
ConnectIdempotent ==
    [][ (call'.op = "connect" /\ HasSettingsTable) => ultrasonics' = ultrasonics ]_vars

\* C4 happens: connect has run on an install that was already marked not new
ConnectAfterMarkNotNew == call.op = "connect" /\ IsNewInstall = Ret(PyBool(FALSE))

\* the names of the configurable descriptors of the schema
ConfigurableNames == db_compatible_settings(global_settings)

\* the value the raw view maps a key to
RawValue(key) ==
    LET items == settings_loaded(sqlite_master, ultrasonics, TRUE).val.v
        i == CHOOSE j \in 1..Len(items) : items[j][1] = key
    IN items[i][2]

\* the value of the descriptor of that name in the merged view
MergedValue(name) ==
    LET data == settings_loaded(sqlite_master, ultrasonics, FALSE).val
        i == CHOOSE j \in 1..Len(data) : "name" \in DOMAIN data[j] /\ data[j].name = name
    IN data[i].value

IsStoredKey(key) == \E i \in 1..Len(ultrasonics) : ultrasonics[i].key = key

KeysOf(rows) == [i \in 1..Len(rows) |-> rows[i].key]

\* C6: global_settings_save leaves the keys of the settings table as they
\* are, row by row, and a list none of whose keys is stored changes no row.
SaveNeverInserts ==
    [][ call'.op = "global_settings_save" =>
          /\ KeysOf(ultrasonics') = KeysOf(ultrasonics)
          /\ (\A i \in 1..Len(call'.args[1]) :
                  ~IsStoredKey(TextAffinity(Bind(call'.args[1][i][2]))))
             => ultrasonics' = ultrasonics ]_vars

\* C6 happens: a save of a key that is not stored has run on a seeded table
SavedUnknownKey ==
    /\ call.op = "global_settings_save"
    /\ HasSettingsTable
    /\ Len(call.args[1]) >= 1
    /\ \A i \in 1..Len(call.args[1]) : ~IsStoredKey(call.args[1][i][2])

\* the rows that have this key
RowsOf(name) == SelectSeq(ultrasonics, LAMBDA r : r.key.v = name)

\* C7: global_settings_load(raw=False) returns the schema, descriptor by
\* descriptor: a configurable one with the value of the (last) stored row of
\* its name, or its default when no row has its name; a display one as it is.
\* Nothing of a stored key outside the schema is in the result.
MergedViewIsSchema ==
    (call = Call("global_settings_load", <<FALSE>>) /\ HasSettingsTable) =>
        /\ ret.kind = "ret"
        /\ Len(ret.val) = Len(global_settings)
        /\ \A i \in 1..Len(global_settings) :
             LET item == global_settings[i] IN
             IF item.type \in ConfigurableTypes
             THEN LET found == RowsOf(item.name) IN
                  ret.val[i] = [item EXCEPT !.value =
                                   IF found = <<>> THEN item.value
                                   ELSE found[Len(found)].value.v]
             ELSE ret.val[i] = item

\* C7 happens: the merged view was loaded from a table that has no row for
\* api_url but has other rows, and the descriptor shows the default
MergedViewKeptDefault ==
    /\ call = Call("global_settings_load", <<FALSE>>)
    /\ RowsOf(W("api_url")) = <<>>
    /\ ultrasonics # <<>>
    /\ ret.val[5].value = W("https://ultrasonics-api.herokuapp.com/api/")

\* the row of the applets table that has this id
AppletRow(rows, id) == CHOOSE r \in {rows[i] : i \in 1..Len(rows)} : IdIs(r, id)

HasApplet(rows, id) == \E i \in 1..Len(rows) : IdIs(rows[i], id)

\* C1: applet_create_entry(id, pB) on an id that has a row leaves the row's
\* lastrun as it was, and applet_load_entry(id) then returns what the text
\* of pB decodes to.
UpsertKeepsLastrun ==
    [][ \A id \in AppletIds, pB \in Values :
          (call' = Call("applet_create_entry", <<id, pB>>) /\ HasApplet(applets, id))
          => /\ applet_loaded(sqlite_master', applets', id) = literal_eval(py_str(pB))
             /\ AppletRow(applets', id).lastrun = AppletRow(applets, id).lastrun ]_vars

\* the dict of this id in the list applet_gather returns
GatheredEntry(gathered, id) ==
    CHOOSE d \in {gathered.val.v[i] : i \in 1..Len(gathered.val.v)} : d.v[1][2] = id

\* C2: applet_update_lastrun(id, outcome) on an id that has a row, in a
\* state where applet_gather returns, leaves every other column and row as
\* they were, so applet_load_entry(id) returns what it returned before, and
\* applet_gather then reports outcome as the applet_lastrun of id.
UpdateLastrunOnlyLastrun ==
    [][ \A id \in AppletIds, outcome \in Values :
          (/\ call' = Call("applet_update_lastrun", <<id, outcome>>)
           /\ HasApplet(applets, id)
           /\ applets_gathered(sqlite_master, applets).kind = "ret")
          => /\ applet_loaded(sqlite_master', applets', id)
                    = applet_loaded(sqlite_master, applets, id)
             /\ Len(applets') = Len(applets)
             /\ \A i \in 1..Len(applets) :
                    /\ applets'[i].id = applets[i].id
                    /\ applets'[i].data = applets[i].data
                    /\ ~IdIs(applets[i], id) => applets'[i] = applets[i]
             /\ applets_gathered(sqlite_master', applets').kind = "ret"
             /\ LET d == GatheredEntry(applets_gathered(sqlite_master', applets'), id) IN
                Len(d.v) = 3 /\ d.v[3] = <<PyStr(W("applet_lastrun")), outcome>> ]_vars

\* the versions plugin_entry_exists lists for a name: none for the sentinel
ListedVersions(rows, name) ==
    LET found == versions_found({"plugins"}, rows, name).val.v IN
    IF found = <<PyBool(FALSE)>> THEN <<>> ELSE found

\* C8: plugin_entry_exists(name) has one entry for each row of that name:
\* plugin_create_entry(n, v) adds one entry (also when (n, v) is stored
\* already) and the list then contains v; for a name without rows the
\* result is [False], never the empty list.
FindVersionsListsCreated ==
    [][ /\ \A name \in PluginNames :
              /\ versions_found({"plugins"}, plugins, name).val.v # <<>>
              /\ (~\E i \in 1..Len(plugins) : plugins[i].plugin = name)
                     => versions_found({"plugins"}, plugins, name) = Ret(PyList(<<PyBool(FALSE)>>))
        /\ \A name \in PluginNames, version \in Versions :
              (call' = Call("plugin_create_entry", <<name, version>>)
               /\ "plugins" \in sqlite_master)
              => /\ Len(ListedVersions(plugins', name)) = Len(ListedVersions(plugins, name)) + 1
                 /\ \E i \in 1..Len(ListedVersions(plugins', name)) :
                        ListedVersions(plugins', name)[i] = PyStr(py_str(version)) ]_vars

\* C9: plugin_update_entry(name, version, s) with a matching row sets the
\* settings of the rows that match both name and version and of no other
\* row: plugin_load_entry(name, version) then returns s, and for every other
\* name or stored version it returns what it returned before.
UpdateScopedByVersion ==
    [][ \A name \in PluginNames, version \in Versions, s \in PluginSettings :
          (/\ call' = Call("plugin_update_entry", <<name, version, s>>)
           /\ "plugins" \in sqlite_master
           /\ \E i \in 1..Len(plugins) : PluginMatches(plugins[i], name, version))
          => /\ plugin_loaded(sqlite_master', plugins', name, version) = Ret(s)
             /\ \A i \in 1..Len(plugins) :
                    ~PluginMatches(plugins[i], name, version) => plugins'[i] = plugins[i]
             /\ \A n2 \in PluginNames, v2 \in Versions :
                    (n2 # name \/ RealAffinity(v2) # RealAffinity(version))
                    => plugin_loaded(sqlite_master', plugins', n2, v2)
                           = plugin_loaded(sqlite_master, plugins, n2, v2) ]_vars

\* C10: the codec is a round trip: right after applet_create_entry(id, v),
\* applet_load_entry(id) returns v, for every value v, a string at top level
\* included.
CodecRoundTrip ==
    (call.op = "applet_create_entry" /\ "applets" \in sqlite_master)
        => applet_loaded(sqlite_master, applets, call.args[1]) = Ret(call.args[2])

\* C11: applet_delete_entry(id) returns normally and applet_load_entry(id)
\* is None after it; for an id without a row it changes no row; and
\* applet_load_entry of an id without a row is None, never an exception.
DeleteIdempotent ==
    [][ /\ \A id \in AppletIds :
              ~HasApplet(applets', id)
                  => applet_loaded(sqlite_master', applets', id) = Ret(PyNone)
        /\ \A id \in AppletIds :
              call' = Call("applet_delete_entry", <<id>>)
              => /\ ret' = Ret(PyNone)
                 /\ applet_loaded(sqlite_master', applets', id) = Ret(PyNone)
                 /\ ~HasApplet(applets, id) => applets' = applets ]_vars

\* C11 happens: an id without a row was deleted while another applet is stored
DeletedAbsentApplet ==
    /\ call.op = "applet_delete_entry"
    /\ applets # <<>>
    /\ ~HasApplet(applets, call.args[1])

\* C12: applet_gather returns one entry for each row, under the row's id;
\* an entry has an applet_lastrun exactly when the row's lastrun is not
\* NULL; and right after applet_create_entry(id, plan) the entry of id
\* carries plan.
ListAllComplete ==
    "applets" \in sqlite_master =>
        LET g == applets_gathered(sqlite_master, applets) IN
        /\ g.kind = "ret"
        /\ Len(g.val.v) = Len(applets)
        /\ \A i \in 1..Len(applets) :
               /\ g.val.v[i].v[1] = <<PyStr(W("applet_id")), applets[i].id>>
               /\ (Len(g.val.v[i].v) = 3) <=> (applets[i].lastrun # PyNone)
               /\ \A j \in 1..Len(applets) : applets[j].id = applets[i].id => j = i
        /\ call.op = "applet_create_entry"
               => GatheredEntry(g, call.args[1]).v[2]
                      = <<PyStr(W("applet_plans")), call.args[2]>>

\* C13: a stored text that is no well-formed literal does not make
\* applet_load_entry or applet_gather leave with an exception: they return.
DecodeFailureHandled ==
    call.op \in {"applet_load_entry", "applet_gather"} => ret.kind = "ret"

\* the save writes the text 1 to the key new_install
SavesNewInstall(settings) ==
    \E i \in 1..Len(settings) :
        /\ TextAffinity(Bind(settings[i][2])) = PyStr(W("new_install"))
        /\ TextAffinity(Bind(settings[i][1])) = PyStr(W("1"))

\* C14 as stated: once new_install() is False, no operation makes it True.
NotNewIsOneWay ==
    [][ IsNewInstall = Ret(PyBool(FALSE)) => IsNewInstall' # Ret(PyBool(TRUE)) ]_vars

\* C14 amended: once new_install() is False it stays False under every
\* operation except a global_settings_save that writes 1 to new_install.
NotNewStaysUnlessSaved ==
    [][ (/\ IsNewInstall = Ret(PyBool(FALSE))
         /\ ~(call'.op = "global_settings_save" /\ SavesNewInstall(call'.args[1])))
        => IsNewInstall' = Ret(PyBool(FALSE)) ]_vars

\* C14 happens: a save of other settings has run on an install that is not
\* new, and it is still not new
SavedWhileNotNew ==
    /\ call.op = "global_settings_save"
    /\ Len(call.args[1]) >= 1
    /\ IsNewInstall = Ret(PyBool(FALSE))

\* C16: plugin_load_entry(name, version) for a pair that has no row returns
\* None; it does not leave with an exception.
PluginLoadAbsentReturns ==
    (/\ call.op = "plugin_load_entry"
     /\ "plugins" \in sqlite_master
     /\ ~\E i \in 1..Len(plugins) : PluginMatches(plugins[i], call.args[1], call.args[2]))
    => ret = Ret(PyNone)

\* C19: every applet row has a plan; only applet_create_entry adds a row;
\* applet_update_lastrun(id, outcome) for an id without a row changes no
\* row, so applet_load_entry(id) is still None and applet_gather returns
\* what it returned.
AppletRowsHavePlan ==
    [][ /\ \A i \in 1..Len(applets') : applets'[i].data # PyNone
        /\ Len(applets') > Len(applets) => call'.op = "applet_create_entry"
        /\ \A id \in AppletIds :
              (call'.op = "applet_update_lastrun" /\ call'.args[1] = id
               /\ ~HasApplet(applets, id))
              => /\ applets' = applets
                 /\ applet_loaded(sqlite_master', applets', id) = Ret(PyNone)
                 /\ applets_gathered(sqlite_master', applets')
                        = applets_gathered(sqlite_master, applets) ]_vars

\* C19 happens: the lastrun of an id without a row was updated while another
\* applet is stored
UpdatedAbsentApplet ==
    /\ call.op = "applet_update_lastrun"
    /\ applets # <<>>
    /\ ~HasApplet(applets, call.args[1])

\* C20: applet_create_entry, applet_update_lastrun and applet_delete_entry
\* of one id leave the row of every other id, the settings table and the
\* plugins table as they were.
AppletOpsScopedToId ==
    [][ call'.op \in {"applet_create_entry", "applet_update_lastrun", "applet_delete_entry"}
        => /\ \A other \in AppletIds \ {call'.args[1]} :
                  /\ HasApplet(applets', other) = HasApplet(applets, other)
                  /\ HasApplet(applets, other)
                         => AppletRow(applets', other) = AppletRow(applets, other)
           /\ ultrasonics' = ultrasonics
           /\ plugins' = plugins
           /\ sqlite_master' = sqlite_master ]_vars

\* C20 happens: an applet was replaced while another one, which has a plan
\* and a lastrun, is stored
ReplacedBesideAnother ==
    /\ call.op = "applet_create_entry"
    /\ Len(applets) = 2
    /\ \E i \in 1..2 : ~IdIs(applets[i], call.args[1]) /\ applets[i].lastrun # PyNone

\* C15: when applet_create_entry(id, p) and applet_update_lastrun(id, o)
\* of two callers on a stored applet have both returned, in whichever
\* order they ran, the row holds the text of p as its plan and the text of
\* o as its lastrun.
RaceLastWriterWins ==
    (\A c \in Callers : callers[c].pc = "done") =>
        LET id == callers["ui"].args[1]
            row == AppletRow(applets, id)
        IN /\ HasApplet(applets, id)
           /\ row.data = PyStr(py_str(callers["ui"].args[2]))
           /\ row.lastrun = PyStr(py_str(callers["scheduler"].args[2]))

\* C17: the settings table has at most one row for a key.
UniqueSettingKeys ==
    \A i, j \in 1..Len(ultrasonics) : ultrasonics[i].key = ultrasonics[j].key => i = j

\* C18: no connection of a call that has returned is still open.
ConnectionsReleased == unclosed = 0

====
